---- MODULE Spec2Model ----
(***************************************************************************)
(* rec - quick speech-to-text: a model of one process invocation after     *)
(* another (src/src/main.rs), of the correction call                       *)
(* (src/src/correction.rs) and of the two persisted stores                 *)
(* (src/src/config.rs).                                                    *)
(*                                                                         *)
(* Conventions.                                                            *)
(*  - An f32 sample is a rational number; it is held as an integer count   *)
(*    of 1/SampleUnit, so 1.0 is SampleUnit and an i16 device sample s     *)
(*    (s / 32768.0) is (s * SampleUnit) / 32768.  NaN is not represented.  *)
(*  - A file is [kind, raw, doc]: kind "missing", "garbage" (raw holds the *)
(*    bytes, which do not parse) or "json" (doc holds the document).       *)
(*  - A text that may be absent (Option<String>) is [some, v].             *)
(*  - An error message built by format!(prefix, arg) is [msg, body].       *)
(*  - Network calls and environment lookups may fail.  Calls on a readable, *)
(*    writable store directory, on the terminal and on an opened stream    *)
(*    succeed.  What goes to stderr and to the clipboard is not part of    *)
(*    the state.                                                           *)
(***************************************************************************)
EXTENDS Integers, Sequences, FiniteSets, TLC

\* ------------------------------------------------------------- bounds ----
MaxRuns == 3          \* process invocations in one behaviour
MaxCallbacks == 2     \* hardware callbacks during one capture
MaxPromptHistory == 7 \* longest history handed to the prompt builder
MaxBlocks == 2        \* content blocks in a correction response
MaxSamples == 2       \* samples handed to the encoder in the encoder model

\* ---------------------------------------------------- program constants --
I16Scale == 32768     \* main.rs:119  s as f32 / 32768.0
WavScale == 32767     \* main.rs:158  s * 32767.0
I16Min == -32768      \* main.rs:158  clamp lower bound
I16Max == 32767       \* main.rs:158  clamp upper bound
BitsPerSample == 16   \* main.rs:153
ContextWindow == 5    \* correction.rs:90  take(5)
SampleUnit == I16Scale

MODEL_V1 == "voxtral-mini-2507"
MODEL_V2 == "voxtral-mini-2602"
DefaultClaudeModel == "claude-haiku-4-5"

\* ------------------------------------------------------------ options ----
None == [some |-> FALSE, v |-> ""]
Some(s) == [some |-> TRUE, v |-> s]

NoError == [msg |-> "", body |-> ""]
Format(prefix, arg) == [msg |-> prefix, body |-> arg]
Plain(message) == [msg |-> message, body |-> ""]

\* -------------------------------------------------------------- files ----
DefaultConfig == [custom_words |-> <<>>, claude_model |-> DefaultClaudeModel]

MissingConfigFile == [kind |-> "missing", raw |-> "", doc |-> DefaultConfig]
GarbageConfigFile(bytes) == [kind |-> "garbage", raw |-> bytes, doc |-> DefaultConfig]
ConfigToString(c) == [kind |-> "json", raw |-> "", doc |-> c]

MissingHistoryFile == [kind |-> "missing", raw |-> "", doc |-> <<>>]
GarbageHistoryFile(bytes) == [kind |-> "garbage", raw |-> bytes, doc |-> <<>>]
HistoryToString(h) == [kind |-> "json", raw |-> "", doc |-> h]

Exists(file) == file.kind # "missing"
Parses(file) == file.kind = "json"

GarbageBytes == {"{\"custom_words\": [", "]["}

\* ------------------------------------------------------ config.rs --------
\* Config::save: the serialised configuration replaces the file.
save(c) == ConfigToString(c)

\* load resetting a corrupted file without the copy to .bak
load_no_backup(file, bak) ==
  IF ~Exists(file)
    THEN [ret |-> DefaultConfig, file |-> ConfigToString(DefaultConfig), bak |-> bak]
    ELSE IF Parses(file)
      THEN [ret |-> file.doc, file |-> file, bak |-> bak]
      ELSE [ret |-> DefaultConfig, file |-> ConfigToString(DefaultConfig), bak |-> bak]

\* Config::load.  The pair is [ret, file, bak]: what the caller gets and what
\* the call leaves on disk.
load(file, bak) ==
  IF ~Exists(file)
    THEN [ret |-> DefaultConfig, file |-> save(DefaultConfig), bak |-> bak]
    ELSE IF Parses(file)
      THEN [ret |-> file.doc, file |-> file, bak |-> bak]
      ELSE [ret |-> DefaultConfig, file |-> save(DefaultConfig), bak |-> file]

Contains(seq, x) == \E i \in 1..Len(seq) : seq[i] = x

\* Config::add_custom_word
add_custom_word(c, word) ==
  IF ~Contains(c.custom_words, word)
    THEN [c EXCEPT !.custom_words = Append(@, word)]
    ELSE c

\* Config::load_history: [ret, bak]; the history file itself is not written.
load_history(file, bak) ==
  IF ~Exists(file)
    THEN [ret |-> <<>>, bak |-> bak]
    ELSE IF Parses(file)
      THEN [ret |-> file.doc, bak |-> bak]
      ELSE [ret |-> <<>>, bak |-> file]

HistoryEntry(timestamp, original, corrected, model, custom_words) ==
  [timestamp |-> timestamp, original |-> original, corrected |-> corrected,
   model |-> model, custom_words |-> custom_words]

\* add_to_history putting the new entry first
add_to_history_front(file, bak, now, original, corrected, model, custom_words) ==
  LET loaded == load_history(file, bak)
      history == <<HistoryEntry(now, original, corrected, model, custom_words)>>
                 \o loaded.ret
  IN [file |-> HistoryToString(history), bak |-> loaded.bak]

\* Config::add_to_history: [file, bak] after the call.
add_to_history(file, bak, now, original, corrected, model, custom_words) ==
  LET loaded == load_history(file, bak)
      history == Append(loaded.ret,
                        HistoryEntry(now, original, corrected, model, custom_words))
  IN [file |-> HistoryToString(history), bak |-> loaded.bak]

\* ------------------------------------------------------ WAV encoding -----
\* `as i16` of a value already clamped: the fraction is dropped (toward 0).
TruncDiv(a, b) == IF a >= 0 THEN a \div b ELSE -((-a) \div b)

\* ToI16 without the clamp: the cast of the scaled value alone
ToI16NoClamp(s) == TruncDiv(s * WavScale, SampleUnit)

\* (s * 32767.0).clamp(-32768.0, 32767.0) as i16, s in units of 1/SampleUnit
ToI16(s) ==
  IF s * WavScale > I16Max * SampleUnit THEN I16Max
  ELSE IF s * WavScale < I16Min * SampleUnit THEN I16Min
  ELSE TruncDiv(s * WavScale, SampleUnit)

\* hound write_sample for 16 bits: two's complement, little endian
LeBytes(v) == LET u == v % 65536 IN <<u % 256, u \div 256>>

RECURSIVE WriteSamples(_)
WriteSamples(seq) ==
  IF seq = <<>> THEN <<>>
  ELSE LeBytes(ToI16(Head(seq))) \o WriteSamples(Tail(seq))

NoWav == [src |-> "none", channels |-> 0, sample_rate |-> 0, bits_per_sample |-> 0,
          data_len |-> 0, data |-> <<>>]

\* WavWriter::new .. write_sample* .. finalize: the header fields of the spec
\* and the data chunk, whose declared length is the number of bytes written.
EncodeWav(seq, channels, sample_rate) ==
  LET data == WriteSamples(seq)
  IN [src |-> "live", channels |-> channels, sample_rate |-> sample_rate,
      bits_per_sample |-> BitsPerSample, data_len |-> Len(data), data |-> data]

\* the i16 capture callback: s as f32 / 32768.0
RECURSIVE I16ToF32(_)
I16ToF32(chunk) ==
  IF chunk = <<>> THEN <<>>
  ELSE <<(Head(chunk) * SampleUnit) \div I16Scale>> \o I16ToF32(Tail(chunk))

\* --------------------------------------------------- correction.rs -------
RECURSIVE Reverse(_)
Reverse(seq) == IF seq = <<>> THEN <<>> ELSE Append(Reverse(Tail(seq)), Head(seq))

Take(seq, n) == SubSeq(seq, 1, IF Len(seq) < n THEN Len(seq) ELSE n)

ContextLine(entry) == [original |-> entry.original, corrected |-> entry.corrected]

RECURSIVE ContextLines(_)
ContextLines(seq) ==
  IF seq = <<>> THEN <<>> ELSE <<ContextLine(Head(seq))>> \o ContextLines(Tail(seq))

\* Context taking the first entries of the history instead of the last
ContextOldest(history) ==
  IF history = <<>>
    THEN [present |-> FALSE, lines |-> <<>>]
    ELSE [present |-> TRUE, lines |-> ContextLines(Take(history, ContextWindow))]

\* the context block: [present, lines]
Context(history) ==
  IF history = <<>>
    THEN [present |-> FALSE, lines |-> <<>>]
    ELSE [present |-> TRUE,
          lines |-> ContextLines(Reverse(Take(Reverse(history), ContextWindow)))]

NoPrompt == [custom_words |-> <<>>, context |-> Context(<<>>), text |-> "", model |-> ""]

\* the request body: the prompt's three holes and the model
Prompt(text, custom_words, model, history) ==
  [custom_words |-> custom_words, context |-> Context(history), text |-> text,
   model |-> model]

\* A JSON value met where a string field is expected: t is "string", "null",
\* "missing" or "number".
JStr(s) == [t |-> "string", s |-> s]
JNull == [t |-> "null", s |-> ""]
JMissing == [t |-> "missing", s |-> ""]
JNumber == [t |-> "number", s |-> ""]

ToolUse(corrected, explanation) ==
  [type |-> "tool_use", text |-> "", corrected |-> corrected, explanation |-> explanation]
Text(text) ==
  [type |-> "text", text |-> text, corrected |-> JMissing, explanation |-> JMissing]

\* find_map over the content blocks: index of the first tool_use, 0 if none
RECURSIVE FindToolUseFrom(_, _)
FindToolUseFrom(content, i) ==
  IF i > Len(content) THEN 0
  ELSE IF content[i].type = "tool_use" THEN i
  ELSE FindToolUseFrom(content, i + 1)

FindToolUse(content) == FindToolUseFrom(content, 1)

\* Option<String> with #[serde(default)]
FieldOk(j) == j.t \in {"string", "null", "missing"}
FieldValue(j) == IF j.t = "string" THEN Some(j.s) ELSE None

\* .filter(|s| !s.is_empty())
FilterNonEmpty(opt) == IF opt.some /\ opt.v # "" THEN opt ELSE None

CorrErr(e) == [ok |-> FALSE, corrected |-> None, explanation |-> None, err |-> e]
CorrOk(corrected, explanation) ==
  [ok |-> TRUE, corrected |-> corrected, explanation |-> explanation, err |-> NoError]

\* ParseToolInput keeping an explanation only next to a correction
ParseToolInputJoint(block) ==
  IF ~(FieldOk(block.corrected) /\ FieldOk(block.explanation))
    THEN CorrErr(Plain("Failed to parse tool input"))
    ELSE LET corrected == FilterNonEmpty(FieldValue(block.corrected))
         IN CorrOk(corrected,
                   IF corrected.some THEN FilterNonEmpty(FieldValue(block.explanation))
                   ELSE None)

\* ParseToolInput passing the explanation on without the filter
ParseToolInputKeepsEmpty(block) ==
  IF ~(FieldOk(block.corrected) /\ FieldOk(block.explanation))
    THEN CorrErr(Plain("Failed to parse tool input"))
    ELSE CorrOk(FilterNonEmpty(FieldValue(block.corrected)),
                FieldValue(block.explanation))

\* the tool input as CorrectionResult, then the two filters
ParseToolInput(block) ==
  IF ~(FieldOk(block.corrected) /\ FieldOk(block.explanation))
    THEN CorrErr(Plain("Failed to parse tool input"))
    ELSE CorrOk(FilterNonEmpty(FieldValue(block.corrected)),
                FilterNonEmpty(FieldValue(block.explanation)))

\* An HTTP exchange: kind "transport" (the request or the reading of the body
\* failed), or "http" with success (the status), json (the body parses into the
\* expected shape), raw (the body's text), and the parsed body: text for the
\* transcription provider, content for the correction provider.
NoResponse == [kind |-> "none", success |-> FALSE, json |-> FALSE, raw |-> "",
               text |-> "", content |-> <<>>]
Transport == [kind |-> "transport", success |-> FALSE, json |-> FALSE, raw |-> "",
              text |-> "", content |-> <<>>]
HttpError(body) == [kind |-> "http", success |-> FALSE, json |-> FALSE, raw |-> body,
                    text |-> "", content |-> <<>>]
HttpGarbage(body) == [kind |-> "http", success |-> TRUE, json |-> FALSE, raw |-> body,
                      text |-> "", content |-> <<>>]
HttpText(text) == [kind |-> "http", success |-> TRUE, json |-> TRUE, raw |-> "",
                   text |-> text, content |-> <<>>]
HttpContent(content) == [kind |-> "http", success |-> TRUE, json |-> TRUE, raw |-> "",
                         text |-> "", content |-> content]

\* correct_transcription from the response on
correct_transcription(resp) ==
  IF resp.kind = "transport" THEN CorrErr(Plain("transport"))
  ELSE IF ~resp.success THEN CorrErr(Format("Claude API error: ", resp.raw))
  ELSE IF ~resp.json THEN CorrErr(Format("Failed to parse API response", resp.raw))
  ELSE IF FindToolUse(resp.content) = 0 THEN CorrErr(Plain("No tool_use in Claude response"))
  ELSE ParseToolInput(resp.content[FindToolUse(resp.content)])

\* ------------------------------------------------------------ inputs -----
Words == {"tokio", "serde"}
TxTexts == {"hello wurld", "ok"}

ArgsSet ==
  [cmd : {"transcribe"}, word : {""}, file : BOOLEAN, correct : BOOLEAN, v2 : BOOLEAN]
  \cup [cmd : {"add-word"}, word : Words, file : {FALSE}, correct : {FALSE}, v2 : {FALSE}]

\* which of MISTRAL_API_KEY and ANTHROPIC_API_KEY are set
EnvSet == [mistral : BOOLEAN, anthropic : BOOLEAN]

\* the default input device: status "none" when there is no microphone, "error"
\* when its configuration cannot be read or its stream cannot be built or played
NoDevice == [status |-> "none", channels |-> 0, sample_rate |-> 0, format |-> ""]
Devices ==
  { NoDevice,
    [status |-> "ok", channels |-> 1, sample_rate |-> 16000, format |-> "F32"],
    [status |-> "ok", channels |-> 2, sample_rate |-> 48000, format |-> "I16"],
    [status |-> "ok", channels |-> 1, sample_rate |-> 8000, format |-> "U8"],
    [status |-> "error", channels |-> 1, sample_rate |-> 16000, format |-> "F32"] }

\* what one hardware callback may deliver, per sample format
F32Chunks == { <<>>, <<SampleUnit \div 2>>, <<-40000, SampleUnit>> }
I16Chunks == { <<>>, <<I16Max>>, <<I16Min, 1>> }
ChunksOf(format) == IF format = "F32" THEN F32Chunks ELSE I16Chunks

\* the file given with --file: unreadable, or its bytes
UnreadableFile == [src |-> "none", channels |-> 0, sample_rate |-> 0,
                   bits_per_sample |-> 0, data_len |-> 0, data |-> <<>>]
SampleWav == [src |-> "file", channels |-> 1, sample_rate |-> 16000,
              bits_per_sample |-> BitsPerSample, data_len |-> 2, data |-> <<0, 64>>]
InputFiles == {UnreadableFile, SampleWav}

TxResponses ==
  {Transport, HttpError("unauthorized"), HttpError(""), HttpGarbage("<html>")}
  \cup {HttpText(t) : t \in TxTexts}

CorrResponses ==
  { Transport, HttpError("overloaded"), HttpGarbage("<html>"),
    HttpContent(<<>>),
    HttpContent(<<Text("hello world")>>),
    HttpContent(<<ToolUse(JNumber, JStr(""))>>),
    HttpContent(<<ToolUse(JStr(""), JStr(""))>>),
    HttpContent(<<ToolUse(JStr("hello world"), JStr("wurld -> world"))>>),
    HttpContent(<<Text("note"), ToolUse(JStr("foo"), JStr(""))>>) }

\* ------------------------------------------------------------- state -----
VARIABLES
  pc,          \* where main() is
  runs,        \* number of the current process invocation
  args, env,   \* command line and environment of this invocation
  device,      \* the input configuration in use
  stream,      \* "none", "playing", "dropped"
  cbPc,        \* the callback thread: "idle", "lock", "extend", "unlock"
  cbChunk,     \* the chunk the running callback holds
  lockHolder,  \* "none", "callback", "main"
  samples,     \* the shared Vec<f32>
  delivered,   \* every chunk the hardware handed to the callback, in order
  recorded,    \* what main read through its guard
  wav_buffer,  \* the WAV bytes that are sent
  txCount, txForm,       \* transcription requests sent, text fields of the last
  txResp,                \* the transcription response, once received
  result,                \* result.text, once the response was decoded
  corrCount, prompt,     \* correction requests sent, the last one's prompt
  corrResp,              \* the correction response, once received
  config, history,       \* what Config::load and load_history returned
  output,                \* what correct_transcription returned
  final_text,
  appended,              \* history entries written by this invocation
  stdout,                \* the line printed on stdout
  error,                 \* the Err main returned
  configFile, configBak, historyFile, historyBak

runVars == <<args, env, device, stream, cbPc, cbChunk, lockHolder, samples, delivered,
             recorded, wav_buffer, txCount, txForm, txResp, result, corrCount, prompt,
             corrResp, config, history, output, final_text, appended, stdout, error>>
captureVars == <<device, stream, cbPc, cbChunk, lockHolder, samples, delivered, recorded>>
txVars == <<txCount, txForm, txResp, result>>
corrVars == <<corrCount, prompt, corrResp, config, history, output, final_text, appended>>
storeVars == <<configFile, configBak, historyFile, historyBak>>
vars == <<pc, runs, runVars, storeVars>>

\* the state of a process that has just parsed its arguments
FreshRun(a, e) ==
  /\ args = a /\ env = e
  /\ device = NoDevice /\ stream = "none" /\ cbPc = "idle" /\ cbChunk = <<>>
  /\ lockHolder = "none" /\ samples = <<>> /\ delivered = <<>> /\ recorded = <<>>
  /\ wav_buffer = NoWav /\ txCount = 0 /\ txForm = <<>> /\ txResp = NoResponse /\ result = None
  /\ corrCount = 0 /\ prompt = NoPrompt /\ corrResp = NoResponse /\ config = DefaultConfig /\ history = <<>>
  /\ output = CorrErr(NoError) /\ final_text = "" /\ appended = 0
  /\ stdout = None /\ error = NoError

\* what an invocation may find on disk
StoredConfigs ==
  { MissingConfigFile, GarbageConfigFile("]["),
    save([custom_words |-> <<"tokio">>, claude_model |-> DefaultClaudeModel]) }
StoredHistories ==
  { MissingHistoryFile, GarbageHistoryFile("]["),
    HistoryToString(<<HistoryEntry(0, "helo wurld", "hello world", DefaultClaudeModel,
                                   <<>>)>>) }

\* one invocation, on any of these disks
Init ==
  /\ pc = "start" /\ runs = 1
  /\ \E a \in ArgsSet, e \in EnvSet : FreshRun(a, e)
  /\ configFile \in StoredConfigs /\ configBak = MissingConfigFile
  /\ historyFile \in StoredHistories /\ historyBak = MissingHistoryFile

\* a fresh installation, used with --file or add-word
FileArgs == {a \in ArgsSet : a.cmd = "add-word" \/ (a.file /\ ~a.v2)}

InitRuns ==
  /\ pc = "start" /\ runs = 1
  /\ \E a \in FileArgs, e \in EnvSet : FreshRun(a, e)
  /\ configFile = MissingConfigFile /\ configBak = MissingConfigFile
  /\ historyFile = MissingHistoryFile /\ historyBak = MissingHistoryFile

Fail(e) == pc' = "exit_err" /\ error' = e
\* ------------------------------------------------------------ main() -----
\* rec add-word <word>
AddWordCmd ==
  /\ pc = "start" /\ args.cmd = "add-word"
  /\ LET loaded == load(configFile, configBak)
         cfg == add_custom_word(loaded.ret, args.word)
     IN /\ config' = cfg
        /\ configFile' = save(cfg)
        /\ configBak' = loaded.bak
  /\ pc' = "exit_ok"
  /\ UNCHANGED <<runs, args, env, captureVars, wav_buffer, txVars, corrCount, prompt, corrResp,
                 history, output, final_text, appended, stdout, error, historyFile, historyBak>>

MissingMistralKey ==
  /\ pc = "start" /\ args.cmd = "transcribe" /\ ~env.mistral
  /\ Fail(Plain("MISTRAL_API_KEY not set"))
  /\ UNCHANGED <<runs, args, env, captureVars, wav_buffer, txVars, corrVars, stdout, storeVars>>

\* --file: the bytes are taken as they are
ReadFile(file) ==
  /\ pc = "start" /\ args.cmd = "transcribe" /\ env.mistral /\ args.file
  /\ IF file.src = "none"
       THEN Fail(Plain("io")) /\ UNCHANGED wav_buffer
       ELSE pc' = "transcribe" /\ wav_buffer' = file /\ UNCHANGED error
  /\ UNCHANGED <<runs, args, env, captureVars, txVars, corrVars, stdout, storeVars>>

\* default device, its configuration, build_input_stream, play
OpenStream(dev) ==
  /\ pc = "start" /\ args.cmd = "transcribe" /\ env.mistral /\ ~args.file
  /\ IF dev.status = "none"
       THEN Fail(Plain("No mic")) /\ UNCHANGED <<device, stream>>
       ELSE IF dev.format \notin {"F32", "I16"}
         THEN Fail(Plain("Unsupported format")) /\ UNCHANGED <<device, stream>>
         ELSE IF dev.status = "error"
           THEN Fail(Plain("device")) /\ UNCHANGED <<device, stream>>
           ELSE /\ pc' = "recording" /\ device' = dev /\ stream' = "playing"
                /\ UNCHANGED error
  /\ UNCHANGED <<runs, args, env, cbPc, cbChunk, lockHolder, samples, delivered, recorded,
                 wav_buffer, txVars, corrVars, stdout, storeVars>>

\* the hardware calls the data callback with a chunk
CallbackBegin(chunk) ==
  /\ stream = "playing" /\ cbPc = "idle" /\ Len(delivered) < MaxCallbacks
  /\ LET floats == IF device.format = "I16" THEN I16ToF32(chunk) ELSE chunk
     IN cbChunk' = floats /\ delivered' = Append(delivered, floats)
  /\ cbPc' = "lock"
  /\ UNCHANGED <<pc, runs, args, env, device, stream, lockHolder, samples, recorded, wav_buffer,
                 txVars, corrVars, stdout, error, storeVars>>

\* samples_clone.lock().unwrap()
CallbackLock ==
  /\ cbPc = "lock" /\ lockHolder = "none"
  /\ lockHolder' = "callback" /\ cbPc' = "extend"
  /\ UNCHANGED <<pc, runs, args, env, device, stream, cbChunk, samples, delivered,
                 recorded, wav_buffer, txVars, corrVars, stdout, error, storeVars>>

\* .extend_from_slice(data) / .extend(floats)
CallbackExtend ==
  /\ cbPc = "extend"
  /\ samples' = samples \o cbChunk /\ cbPc' = "unlock"
  /\ UNCHANGED <<pc, runs, args, env, device, stream, cbChunk, lockHolder, delivered,
                 recorded, wav_buffer, txVars, corrVars, stdout, error, storeVars>>

\* the guard is dropped at the end of the statement and the callback returns
CallbackUnlock ==
  /\ cbPc = "unlock"
  /\ lockHolder' = "none" /\ cbPc' = "idle" /\ cbChunk' = <<>>
  /\ UNCHANGED <<pc, runs, args, env, device, stream, samples, delivered, recorded, wav_buffer,
                 txVars, corrVars, stdout, error, storeVars>>

\* DropStream returning while a callback is still running
DropStreamNoJoin ==
  /\ pc = "recording"
  /\ stream' = "dropped" /\ pc' = "stopped"
  /\ UNCHANGED <<runs, args, env, device, cbPc, cbChunk, lockHolder, samples, delivered,
                 recorded, wav_buffer, txVars, corrVars, stdout, error, storeVars>>

\* Enter was read; drop(stream) returns once no callback is running
DropStream ==
  /\ pc = "recording" /\ cbPc = "idle"
  /\ stream' = "dropped" /\ pc' = "stopped"
  /\ UNCHANGED <<runs, args, env, device, cbPc, cbChunk, lockHolder, samples, delivered,
                 recorded, wav_buffer, txVars, corrVars, stdout, error, storeVars>>

\* LockBuffer without the emptiness test
LockBufferNoCheck ==
  /\ pc = "stopped" /\ lockHolder = "none"
  /\ recorded' = samples
  /\ pc' = "encode" /\ lockHolder' = "main"
  /\ UNCHANGED <<runs, args, env, device, stream, cbPc, cbChunk, samples, delivered, wav_buffer,
                 txVars, corrVars, stdout, error, storeVars>>

\* samples.lock().unwrap(), the duration, the emptiness test
LockBuffer ==
  /\ pc = "stopped" /\ lockHolder = "none"
  /\ recorded' = samples
  /\ IF samples = <<>>
       THEN Fail(Plain("No audio")) /\ UNCHANGED lockHolder
       ELSE pc' = "encode" /\ lockHolder' = "main" /\ UNCHANGED error
  /\ UNCHANGED <<runs, args, env, device, stream, cbPc, cbChunk, samples, delivered, wav_buffer,
                 txVars, corrVars, stdout, storeVars>>

\* the WAV block; the guard goes out of scope at its end
Encode ==
  /\ pc = "encode"
  /\ recorded' = samples
  /\ wav_buffer' = EncodeWav(samples, device.channels, device.sample_rate)
  /\ lockHolder' = "none"
  /\ pc' = "transcribe"
  /\ UNCHANGED <<runs, args, env, device, stream, cbPc, cbChunk, samples, delivered,
                 txVars, corrVars, stdout, error, storeVars>>

\* the multipart form of main.rs and its text fields
TranscriptionForm(a) ==
  << <<"model", IF a.v2 THEN MODEL_V2 ELSE MODEL_V1>> >>

SendTranscription ==
  /\ pc = "transcribe"
  /\ txCount' = txCount + 1
  /\ txForm' = TranscriptionForm(args)
  /\ pc' = "tx_wait"
  /\ UNCHANGED <<runs, args, env, captureVars, wav_buffer, txResp, result, corrVars, stdout,
                 error, storeVars>>

\* TxResponse with the status test left out
TxResponseNoStatus(resp) ==
  /\ pc = "tx_wait"
  /\ txResp' = resp
  /\ IF resp.kind = "transport"
       THEN Fail(Plain("transport")) /\ UNCHANGED <<result, final_text>>
       ELSE IF ~resp.json
         THEN Fail(Plain("decode")) /\ UNCHANGED <<result, final_text>>
         ELSE /\ result' = Some(resp.text)
              /\ IF args.correct
                   THEN pc' = "correct" /\ UNCHANGED final_text
                   ELSE pc' = "emit" /\ final_text' = resp.text
              /\ UNCHANGED error
  /\ UNCHANGED <<runs, args, env, captureVars, wav_buffer, txCount, txForm, corrCount, prompt,
                 corrResp, config, history, output, appended, stdout, storeVars>>

\* the response to the transcription request
TxResponse(resp) ==
  /\ pc = "tx_wait"
  /\ txResp' = resp
  /\ IF resp.kind = "transport"
       THEN Fail(Plain("transport")) /\ UNCHANGED <<result, final_text>>
       ELSE IF ~resp.success
         THEN Fail(Format("API error: ", resp.raw)) /\ UNCHANGED <<result, final_text>>
         ELSE IF ~resp.json
           THEN Fail(Plain("decode")) /\ UNCHANGED <<result, final_text>>
           ELSE /\ result' = Some(resp.text)
                /\ IF args.correct
                     THEN pc' = "correct" /\ UNCHANGED final_text
                     ELSE pc' = "emit" /\ final_text' = resp.text
                /\ UNCHANGED error
  /\ UNCHANGED <<runs, args, env, captureVars, wav_buffer, txCount, txForm, corrCount, prompt,
                 corrResp, config, history, output, appended, stdout, storeVars>>

\* --correct: the key, the two loads, the prompt, the request
BeginCorrect ==
  /\ pc = "correct"
  /\ IF ~env.anthropic
       THEN /\ Fail(Plain("ANTHROPIC_API_KEY not set"))
            /\ UNCHANGED <<corrCount, prompt, config, history, storeVars>>
       ELSE LET loaded == load(configFile, configBak)
                hist == load_history(historyFile, historyBak)
            IN /\ config' = loaded.ret
               /\ configFile' = loaded.file
               /\ configBak' = loaded.bak
               /\ history' = hist.ret
               /\ historyBak' = hist.bak
               /\ prompt' = Prompt(result.v, loaded.ret.custom_words,
                                   loaded.ret.claude_model, hist.ret)
               /\ corrCount' = corrCount + 1
               /\ pc' = "corr_wait"
               /\ UNCHANGED <<historyFile, error>>
  /\ UNCHANGED <<runs, args, env, captureVars, wav_buffer, txVars, corrResp, output, final_text,
                 appended, stdout>>

\* CorrResponse with the call's error propagated by `?` instead of matched
CorrResponseFatal(resp) ==
  /\ pc = "corr_wait"
  /\ corrResp' = resp
  /\ LET out == correct_transcription(resp)
         was_corrected == out.ok /\ out.corrected.some
         text == IF was_corrected THEN out.corrected.v ELSE result.v
     IN /\ output' = out
        /\ IF out.ok
             THEN pc' = "emit" /\ final_text' = text /\ UNCHANGED error
             ELSE Fail(out.err) /\ UNCHANGED final_text
        /\ IF was_corrected
             THEN LET written == add_to_history(historyFile, historyBak, runs, result.v,
                                              text, config.claude_model,
                                              config.custom_words)
                  IN /\ historyFile' = written.file
                     /\ historyBak' = written.bak
                     /\ appended' = appended + 1
             ELSE UNCHANGED <<historyFile, historyBak, appended>>
  /\ UNCHANGED <<runs, args, env, captureVars, wav_buffer, txVars, corrCount, prompt, config,
                 history, stdout, configFile, configBak>>

\* CorrResponse saving to history whenever the call succeeded
CorrResponseAlwaysSaves(resp) ==
  /\ pc = "corr_wait"
  /\ corrResp' = resp
  /\ LET out == correct_transcription(resp)
         was_corrected == out.ok /\ out.corrected.some
         text == IF was_corrected THEN out.corrected.v ELSE result.v
     IN /\ output' = out
        /\ final_text' = text
        /\ IF out.ok
             THEN LET written == add_to_history(historyFile, historyBak, runs, result.v,
                                              text, config.claude_model,
                                              config.custom_words)
                  IN /\ historyFile' = written.file
                     /\ historyBak' = written.bak
                     /\ appended' = appended + 1
             ELSE UNCHANGED <<historyFile, historyBak, appended>>
  /\ pc' = "emit"
  /\ UNCHANGED <<runs, args, env, captureVars, wav_buffer, txVars, corrCount, prompt, config,
                 history, stdout, error, configFile, configBak>>

\* the response to the correction request, and the match on its result
CorrResponse(resp) ==
  /\ pc = "corr_wait"
  /\ corrResp' = resp
  /\ LET out == correct_transcription(resp)
         was_corrected == out.ok /\ out.corrected.some
         text == IF was_corrected THEN out.corrected.v ELSE result.v
     IN /\ output' = out
        /\ final_text' = text
        /\ IF was_corrected
             THEN LET written == add_to_history(historyFile, historyBak, runs, result.v,
                                              text, config.claude_model,
                                              config.custom_words)
                  IN /\ historyFile' = written.file
                     /\ historyBak' = written.bak
                     /\ appended' = appended + 1
             ELSE UNCHANGED <<historyFile, historyBak, appended>>
  /\ pc' = "emit"
  /\ UNCHANGED <<runs, args, env, captureVars, wav_buffer, txVars, corrCount, prompt, config,
                 history, stdout, error, configFile, configBak>>

\* println!("{}", final_text)
Emit ==
  /\ pc = "emit"
  /\ stdout' = Some(final_text)
  /\ pc' = "exit_ok"
  /\ UNCHANGED <<runs, args, env, captureVars, wav_buffer, txVars, corrVars, error, storeVars>>

\* ------------------------------------------------------- environment -----
\* the program is started again
NewRun(a, e) ==
  /\ pc \in {"exit_ok", "exit_err"} /\ runs < MaxRuns
  /\ pc' = "start" /\ runs' = runs + 1
  /\ args' = a /\ env' = e
  /\ device' = NoDevice /\ stream' = "none" /\ cbPc' = "idle" /\ cbChunk' = <<>>
  /\ lockHolder' = "none" /\ samples' = <<>> /\ delivered' = <<>> /\ recorded' = <<>>
  /\ wav_buffer' = NoWav /\ txCount' = 0 /\ txForm' = <<>> /\ txResp' = NoResponse /\ result' = None
  /\ corrCount' = 0 /\ prompt' = NoPrompt /\ corrResp' = NoResponse /\ config' = DefaultConfig /\ history' = <<>>
  /\ output' = CorrErr(NoError) /\ final_text' = "" /\ appended' = 0
  /\ stdout' = None /\ error' = NoError
  /\ UNCHANGED storeVars

\* something else damages a store between two steps of the program
CorruptConfig(bytes) ==
  /\ pc \in {"start", "corr_wait"}
  /\ configFile # GarbageConfigFile(bytes)
  /\ configFile' = GarbageConfigFile(bytes)
  /\ UNCHANGED <<pc, runs, runVars, configBak, historyFile, historyBak>>

CorruptHistory(bytes) ==
  /\ pc \in {"start", "corr_wait"}
  /\ historyFile # GarbageHistoryFile(bytes)
  /\ historyFile' = GarbageHistoryFile(bytes)
  /\ UNCHANGED <<pc, runs, runVars, configFile, configBak, historyBak>>

Next ==
  \/ AddWordCmd
  \/ MissingMistralKey
  \/ \E file \in InputFiles : ReadFile(file)
  \/ \E dev \in Devices : OpenStream(dev)
  \/ \E chunk \in ChunksOf(device.format) : CallbackBegin(chunk)
  \/ CallbackLock
  \/ CallbackExtend
  \/ CallbackUnlock
  \/ DropStream
  \/ LockBuffer
  \/ Encode
  \/ SendTranscription
  \/ \E resp \in TxResponses : TxResponse(resp)
  \/ BeginCorrect
  \/ \E resp \in CorrResponses : CorrResponse(resp)
  \/ Emit

Spec == Init /\ [][Next]_vars

\* invocation after invocation on one disk
NextRuns ==
  \/ AddWordCmd
  \/ MissingMistralKey
  \/ \E file \in InputFiles : ReadFile(file)
  \/ SendTranscription
  \/ \E resp \in TxResponses : TxResponse(resp)
  \/ BeginCorrect
  \/ \E resp \in CorrResponses : CorrResponse(resp)
  \/ Emit
  \/ \E a \in FileArgs, e \in EnvSet : NewRun(a, e)
  \/ \E bytes \in GarbageBytes : CorruptConfig(bytes)
  \/ \E bytes \in GarbageBytes : CorruptHistory(bytes)

SpecRuns == InitRuns /\ [][NextRuns]_vars

\* ------------------------------------------- the prompt builder alone ----
\* histories of every length up to MaxPromptHistory
EntryPool ==
  { HistoryEntry(0, "helo", "hello", DefaultClaudeModel, <<>>),
    HistoryEntry(0, "wurld", "world", DefaultClaudeModel, <<"tokio">>) }
PromptHistories == UNION {[1..n -> EntryPool] : n \in 0..MaxPromptHistory}

FileCorrectArgs == [cmd |-> "transcribe", word |-> "", file |-> TRUE, correct |-> TRUE,
                    v2 |-> FALSE]

\* a --file --correct run whose transcription has just been decoded
Transcribed(text) ==
  /\ pc = "correct" /\ runs = 1
  /\ args = FileCorrectArgs /\ env = [mistral |-> TRUE, anthropic |-> TRUE]
  /\ device = NoDevice /\ stream = "none" /\ cbPc = "idle" /\ cbChunk = <<>>
  /\ lockHolder = "none" /\ samples = <<>> /\ delivered = <<>> /\ recorded = <<>>
  /\ wav_buffer = SampleWav /\ txCount = 1 /\ txForm = TranscriptionForm(FileCorrectArgs)
  /\ txResp = HttpText(text) /\ result = Some(text)
  /\ corrCount = 0 /\ prompt = NoPrompt /\ corrResp = NoResponse
  /\ config = DefaultConfig /\ history = <<>>
  /\ output = CorrErr(NoError) /\ final_text = "" /\ appended = 0
  /\ stdout = None /\ error = NoError

InitPrompt ==
  /\ \E text \in TxTexts : Transcribed(text)
  /\ configFile \in StoredConfigs /\ configBak = MissingConfigFile
  /\ historyFile \in {HistoryToString(h) : h \in PromptHistories}
  /\ historyBak = MissingHistoryFile

NextPrompt == BeginCorrect

SpecPrompt == InitPrompt /\ [][NextPrompt]_vars

\* ------------------------------------------ the response parser alone ----
FieldValues == {JStr(""), JStr("foo"), JStr("hello world"), JNull, JMissing, JNumber}
Blocks == {Text("hello world")} \cup {ToolUse(c, e) : c \in FieldValues, e \in FieldValues}
RECURSIVE ContentsUpTo(_)
ContentsUpTo(n) ==
  IF n = 0 THEN {<<>>}
  ELSE LET shorter == ContentsUpTo(n - 1)
       IN shorter \cup {Append(c, b) : c \in shorter, b \in Blocks}
ParseResponses == {HttpContent(c) : c \in ContentsUpTo(MaxBlocks)}

InitParse ==
  /\ \E text \in TxTexts : Transcribed(text)
  /\ configFile = ConfigToString(DefaultConfig) /\ configBak = MissingConfigFile
  /\ historyFile = MissingHistoryFile /\ historyBak = MissingHistoryFile

\* (the guard is repeated so that the responses are enumerated only where one
\* is awaited)
NextParse ==
  \/ BeginCorrect
  \/ pc = "corr_wait" /\ \E resp \in ParseResponses : CorrResponse(resp)
  \/ Emit

SpecParse == InitParse /\ [][NextParse]_vars

\* -------------------------------------------------- the encoder alone ----
EncoderSamples ==
  {-40000, I16Min - 1, I16Min, I16Min + 1, -1, 0, 1, 16384, 20000, I16Max, I16Max + 1,
   40000}
EncoderInputs == UNION {[1..n -> EncoderSamples] : n \in 1..MaxSamples}
InRange(seq) == \A i \in 1..Len(seq) : seq[i] \in I16Min..I16Max

\* a live capture that main has just found non-empty
InitEncode ==
  /\ pc = "encode" /\ runs = 1
  /\ args \in {a \in ArgsSet : a.cmd = "transcribe" /\ ~a.file /\ ~a.correct}
  /\ env = [mistral |-> TRUE, anthropic |-> TRUE]
  /\ device \in {d \in Devices : d.status = "ok" /\ d.format \in {"F32", "I16"}}
  /\ stream = "dropped" /\ cbPc = "idle" /\ cbChunk = <<>> /\ lockHolder = "main"
  /\ samples \in EncoderInputs /\ (device.format = "I16" => InRange(samples))
  /\ delivered = <<samples>> /\ recorded = samples
  /\ wav_buffer = NoWav /\ txCount = 0 /\ txForm = <<>> /\ txResp = NoResponse /\ result = None
  /\ corrCount = 0 /\ prompt = NoPrompt /\ corrResp = NoResponse
  /\ config = DefaultConfig /\ history = <<>>
  /\ output = CorrErr(NoError) /\ final_text = "" /\ appended = 0
  /\ stdout = None /\ error = NoError
  /\ configFile = MissingConfigFile /\ configBak = MissingConfigFile
  /\ historyFile = MissingHistoryFile /\ historyBak = MissingHistoryFile

NextEncode ==
  \/ Encode
  \/ SendTranscription

SpecEncode == InitEncode /\ [][NextEncode]_vars

\* ============================================================ claims =====
Ended == pc \in {"exit_ok", "exit_err"}

\* C1 as stated: in a run with --correct whose transcription succeeded, nothing
\* that goes wrong in the Correct step aborts the run; the run emits, and after a
\* failed correction it emits the transcription text.
C1_CorrectNeverAborts ==
  (args.correct /\ result.some /\ Ended) =>
    /\ pc = "exit_ok" /\ stdout.some
    /\ (~output.ok => stdout = result)

\* C1 amended: once the correction request has been sent, no failure of the
\* correction call aborts the run: it goes on to Emit, and after a failed call
\* the text emitted is the transcription text.  Without ANTHROPIC_API_KEY the
\* run ends in a fatal error before any correction request, emitting nothing.
C1_CorrectionCallFailureFallsBack ==
  /\ (corrCount > 0 /\ pc \notin {"corr_wait"}) =>
       /\ pc \in {"emit", "exit_ok"}
       /\ (~output.ok => final_text = result.v)
       /\ (pc = "exit_ok" => stdout = Some(final_text))
  /\ (args.correct /\ result.some /\ ~env.anthropic /\ Ended) =>
       /\ pc = "exit_err" /\ error = Plain("ANTHROPIC_API_KEY not set")
       /\ corrCount = 0 /\ ~stdout.some

C1_Witness ==
  /\ pc = "exit_ok" /\ corrCount = 1
  /\ output = CorrErr(Plain("No tool_use in Claude response"))
  /\ stdout = result /\ stdout.some

\* C2: a live capture that ends with an empty buffer fails with "No audio";
\* no WAV is encoded, no request is sent and nothing is emitted in that run, and
\* the encoder never gets an empty sample sequence.
LiveCaptureEnded ==
  args.cmd = "transcribe" /\ ~args.file /\ stream = "dropped" /\ pc # "stopped"

C2_EmptyCaptureIsNoAudio ==
  /\ (LiveCaptureEnded /\ samples = <<>>) =>
       /\ pc = "exit_err" /\ error = Plain("No audio")
       /\ wav_buffer = NoWav /\ txCount = 0 /\ corrCount = 0 /\ ~stdout.some
  /\ (error = Plain("No audio") => LiveCaptureEnded /\ samples = <<>>)
  /\ (pc = "encode" => samples # <<>>)
  /\ (wav_buffer.src = "live" => recorded # <<>> /\ wav_buffer.data_len > 0)

C2_Witness ==
  /\ pc = "exit_err" /\ error = Plain("No audio")
  /\ Len(delivered) = 2 /\ samples = <<>> /\ env.mistral /\ env.anthropic

\* C3: a non-success status from the transcription provider ends the run with a
\* fatal error that carries the response body as it came; no correction request,
\* no history entry and no output follow, and one transcription request was sent
\* (never more than one in a run).
C3_TranscriptionStatusErrorIsFatal ==
  /\ txCount <= 1
  /\ (txResp.kind = "http" /\ ~txResp.success) =>
       /\ pc = "exit_err"
       /\ error.msg = "API error: " /\ error.body = txResp.raw
       /\ txCount = 1 /\ corrCount = 0 /\ appended = 0 /\ ~stdout.some

C3_Witness ==
  /\ txResp = HttpError("unauthorized") /\ args.correct /\ env.anthropic
  /\ pc = "exit_err" /\ error = Format("API error: ", "unauthorized")

\* C7: every append to the shared buffer is made by the callback while it holds
\* the lock and before main starts reading; main starts reading only once the
\* stream is dropped and no callback is running; and what main reads is the
\* concatenation of the delivered chunks, in delivery order.
RECURSIVE Flatten(_)
Flatten(chunks) == IF chunks = <<>> THEN <<>> ELSE Head(chunks) \o Flatten(Tail(chunks))

HistoryWritten == historyFile' # historyFile /\ Parses(historyFile')
CorrectionReturned == pc = "corr_wait" /\ pc' = "emit"

C4_HistoryIffCorrected ==
  [][ /\ HistoryWritten <=>
           (CorrectionReturned /\ output'.ok /\ output'.corrected.some)
      /\ HistoryWritten =>
           LET doc == historyFile'.doc
               entry == doc[Len(doc)]
           IN /\ appended = 0 /\ appended' = 1
              /\ Len(doc) = (IF Parses(historyFile) THEN Len(historyFile.doc) ELSE 0) + 1
              /\ entry.original = result.v
              /\ entry.corrected = final_text'
              /\ entry.corrected = output'.corrected.v
      /\ (~HistoryWritten /\ pc' # "start") => appended' = appended
      /\ (pc' = "exit_ok" /\ pc = "emit") => stdout' = Some(final_text)
    ]_vars

C4_Witness ==
  /\ pc = "exit_ok" /\ runs = 2 /\ appended = 1
  /\ Parses(historyFile) /\ Len(historyFile.doc) = 2
  /\ historyFile.doc[2].original = "hello wurld"
  /\ historyFile.doc[2].corrected = "hello world"
  /\ stdout = Some("hello world")

\* C9: a store whose content does not parse is copied to its .bak before the
\* program overwrites it, and loading it is not an error: Config::load writes
\* the defaults back and returns them, load_history returns the empty list.  The
\* program overwrites a store only if its previous content parsed or is in .bak.
ConfigLoaded ==
  \/ (pc = "correct" /\ pc' = "corr_wait")
  \/ (pc = "start" /\ args.cmd = "add-word" /\ pc' # "start")
HistoryLoaded == pc = "correct" /\ pc' = "corr_wait"

C9_CorruptStoreIsBackedUp ==
  [][ /\ (configFile' # configFile /\ Parses(configFile')) =>
           (~Exists(configFile) \/ Parses(configFile) \/ configBak' = configFile)
      /\ (historyFile' # historyFile /\ Parses(historyFile')) =>
           (~Exists(historyFile) \/ Parses(historyFile) \/ historyBak' = historyFile)
      /\ (ConfigLoaded /\ configFile.kind = "garbage") =>
           /\ configBak' = configFile
           /\ configFile' = ConfigToString(add_custom_word(DefaultConfig, args.word))
              \/ (args.cmd # "add-word" /\ configFile' = ConfigToString(DefaultConfig)
                  /\ config' = DefaultConfig)
      /\ (HistoryLoaded /\ historyFile.kind = "garbage") =>
           (historyBak' = historyFile /\ history' = <<>>)
      /\ (pc = "correct" /\ env.anthropic) => pc' = "corr_wait"
      /\ (pc = "start" /\ args.cmd = "add-word" /\ pc' # "start") => pc' = "exit_ok"
    ]_vars

C9_Witness ==
  /\ pc = "corr_wait"
  /\ configBak = GarbageConfigFile("][") /\ configFile = ConfigToString(DefaultConfig)
  /\ config = DefaultConfig
  /\ historyBak = GarbageHistoryFile("][") /\ historyFile = historyBak
  /\ history = <<>>

\* C10: whenever the history file holds a valid entry list and a step of the
\* program changes the file, the entries it held are all still there, unchanged
\* and in the same order, with exactly one entry added at the end.
IsPrefix(a, b) == Len(a) <= Len(b) /\ SubSeq(b, 1, Len(a)) = a
ProgramStep == pc' # pc

C10_HistoryAppendOnly ==
  [][ (Parses(historyFile) /\ ProgramStep /\ historyFile' # historyFile) =>
        /\ Parses(historyFile')
        /\ Len(historyFile'.doc) = Len(historyFile.doc) + 1
        /\ IsPrefix(historyFile.doc, historyFile'.doc)
    ]_vars

C10_Witness ==
  /\ Parses(historyFile) /\ Len(historyFile.doc) = 3
  /\ historyFile.doc[1].timestamp = 1 /\ historyFile.doc[2].timestamp = 2
  /\ historyFile.doc[3].timestamp = 3
  /\ historyFile.doc[1].corrected # historyFile.doc[2].corrected

\* C5: the context block of the prompt holds the last min(len(H), 5) entries of
\* the history H handed to the correction call, oldest first, each as its
\* original/corrected pair; with an empty H there is no context block.
Min(a, b) == IF a < b THEN a ELSE b

C5_ContextIsLastFive ==
  pc = "corr_wait" =>
    LET k == Min(Len(history), 5)
        lines == prompt.context.lines
    IN /\ prompt.context.present <=> (history # <<>>)
       /\ Len(lines) = k
       /\ \A i \in 1..k :
            /\ DOMAIN lines[i] = {"original", "corrected"}
            /\ lines[i].original = history[Len(history) - k + i].original
            /\ lines[i].corrected = history[Len(history) - k + i].corrected

C5_Witness ==
  /\ pc = "corr_wait" /\ Len(history) = 7
  /\ Len(prompt.context.lines) = 5
  /\ history[1].original = "helo" /\ history[3].original = "wurld"
  /\ history[7].original = "helo"
  /\ prompt.context.lines[1].original = "wurld"
  /\ prompt.context.lines[5].original = "helo"

\* C6: when the correction call succeeds, each field of the first tool_use
\* block's input is reported on its own: an empty string as absent, a non-empty
\* string as present and unchanged; text blocks play no part.  A tool_use input
\* with two string fields always succeeds.
Reported(field, opt) ==
  field.t = "string" => opt = (IF field.s = "" THEN None ELSE Some(field.s))

C6_FieldsNormalisedIndependently ==
  (pc \in {"emit", "exit_ok"} /\ corrResp.kind = "http") =>
    LET content == corrResp.content
        tools == {i \in 1..Len(content) : content[i].type = "tool_use"}
    IN /\ output.ok => tools # {}
       /\ \A i \in tools :
            (\A j \in tools : i <= j) =>
              /\ (content[i].corrected.t = "string"
                  /\ content[i].explanation.t = "string") => output.ok
              /\ output.ok =>
                   /\ Reported(content[i].corrected, output.corrected)
                   /\ Reported(content[i].explanation, output.explanation)

C6_Witness ==
  /\ pc = "emit"
  /\ corrResp = HttpContent(<<Text("hello world"), ToolUse(JStr("foo"), JStr(""))>>)
  /\ output = CorrOk(Some("foo"), None)

\* C8: for a non-empty sample sequence the WAV holds one 16-bit little-endian
\* sample per input sample, in input order, under a header with the device's
\* channel count and sample rate and a data length of twice the sample count;
\* each written value is the sample times 32767, clamped to [-32768, 32767], its
\* fraction dropped, so it decodes to within 1/32767 of the clamped sample.
DecodeI16(lo, hi) == LET u == lo + 256 * hi IN IF u >= 32768 THEN u - 65536 ELSE u
Clamp(x, lo, hi) == IF x < lo THEN lo ELSE IF x > hi THEN hi ELSE x

C8_EncodedSamples ==
  (pc \in {"transcribe", "tx_wait"} /\ wav_buffer.src = "live") =>
    /\ samples # <<>>
    /\ wav_buffer.data_len = 2 * Len(samples) /\ Len(wav_buffer.data) = wav_buffer.data_len
    /\ wav_buffer.channels = device.channels /\ wav_buffer.sample_rate = device.sample_rate
    /\ wav_buffer.bits_per_sample = 16
    /\ \A i \in 1..Len(samples) :
         LET v == DecodeI16(wav_buffer.data[2 * i - 1], wav_buffer.data[2 * i])
             c == Clamp(samples[i] * 32767, -32768 * SampleUnit, 32767 * SampleUnit)
         IN /\ wav_buffer.data[2 * i - 1] \in 0..255 /\ wav_buffer.data[2 * i] \in 0..255
            /\ v \in -32768..32767
            /\ IF c >= 0 THEN 0 <= v * SampleUnit /\ v * SampleUnit <= c
                         ELSE c <= v * SampleUnit /\ v * SampleUnit <= 0
            /\ c - v * SampleUnit < SampleUnit /\ v * SampleUnit - c < SampleUnit

C8_Witness ==
  /\ pc = "transcribe" /\ samples = <<-40000, 20000>>
  /\ device.format = "F32" /\ wav_buffer.channels = 1 /\ wav_buffer.sample_rate = 16000
  /\ wav_buffer.data = <<0, 128, 31, 78>> /\ wav_buffer.data_len = 4

\* C11: the transcription request that is sent carries one "context_bias" text
\* field per configured custom word, in the order of the list and with nothing
\* dropped or merged: the values of its "context_bias" fields, read in form
\* order, are the custom_words of the stored configuration.
ContextBias(form) ==
  LET bias == SelectSeq(form, LAMBDA field : field[1] = "context_bias")
  IN [i \in 1..Len(bias) |-> bias[i][2]]

C11_ContextBiasIsCustomWords ==
  pc = "tx_wait" => ContextBias(txForm) = load(configFile, configBak).ret.custom_words

\* C12 as stated: whenever the correction call returns a result, an absent
\* corrected text comes with an absent explanation.
C12_ExplanationOnlyWithCorrection ==
  (pc \in {"emit", "exit_ok"} /\ output.ok) =>
    (~output.corrected.some => ~output.explanation.some)

\* C12: whenever the correction call returns a result, the explanation is
\* present exactly when the explanation field of the first tool_use block's
\* input is a non-empty string, and is then that string, whether or not the
\* corrected text is present.
C12_ExplanationOnlyWithReason ==
  (pc \in {"emit", "exit_ok"} /\ corrResp.kind = "http" /\ output.ok) =>
    /\ FindToolUse(corrResp.content) # 0
    /\ LET reason == corrResp.content[FindToolUse(corrResp.content)].explanation
       IN /\ output.explanation.some <=> (reason.t = "string" /\ reason.s # "")
          /\ output.explanation.some => output.explanation.v = reason.s

C12_Witness ==
  /\ pc = "emit"
  /\ corrResp = HttpContent(<<ToolUse(JStr(""), JStr("foo"))>>)
  /\ output = CorrOk(None, Some("foo"))
  /\ final_text = result.v

====
